---------------------------- MODULE Spec2Model ----------------------------
(***************************************************************************)
(* Model of motionblinds_ble/device.py (class MotionDevice): the           *)
(* connection coordinator (connect / _connect_if_not_connecting /          *)
(* _connect / disconnect), the command dispatcher (_send_command), the     *)
(* disconnect timer (refresh_disconnect_timer), the precondition guards    *)
(* (requires_end_positions, requires_favorite_position,                    *)
(* requires_connection) and the notification callback.                     *)
(*                                                                         *)
(* The program runs on one asyncio event loop.  A coroutine runs without   *)
(* interruption from one await that really suspends to the next, so every  *)
(* action below is one such run: the code between two suspension points of *)
(* one coroutine, with every call it makes.  The processes are             *)
(*   - the callers (coroutines of the host that call the public API),      *)
(*   - the connection tasks (one per create_task(self._connect())),        *)
(*   - the task the disconnect timer spawns (_disconnect_later).           *)
(* The transport (bleak), the clock and the host scheduler are the         *)
(* environment: the outcome of establish_connection, of a write and the    *)
(* moment of a peer drop are chosen nondeterministically.                  *)
(*                                                                         *)
(* The event loop works in iterations: it polls the transport and the      *)
(* timers, then runs the callbacks that were ready when it polled, in the  *)
(* order they were queued (rq, batch): the first step of a created task,   *)
(* the wake-up of a coroutine whose awaited future is done, the delivery   *)
(* of a cancellation.  What the poll finds (the completion of a transport  *)
(* operation, a peer drop, a notification, a due timer) is handled after   *)
(* them, and an operation completes at the earliest in the poll after the  *)
(* iteration that started it (fresh).  The host calls at any moment.       *)
(*                                                                         *)
(* The sequential code is written as operators from "worlds" to worlds (a  *)
(* world is a record of all variables plus the value `ret` the code        *)
(* returned); an action applies such an operator to the current world and  *)
(* commits the result.                                                     *)
(***************************************************************************)
EXTENDS Integers, FiniteSets, Sequences, TLC

VARIABLES
    dev,      \* the fields of the MotionDevice instance
    procs,    \* per process: position in its coroutine and its locals
    clients,  \* per BleakClient: "unused", "alive" (connected) or "dead"
    cbs,      \* BleakClients whose disconnected callback is _disconnect_callback
    clock,    \* the value the next call of time_ns() returns
    now,      \* time in timer units (time_ns() // 1e6 in refresh_disconnect_timer)
    calls,    \* number of public API calls made so far
    fails,    \* number of transient write failures injected so far
    notes,    \* number of notifications received so far
    fin,      \* the public call that returned last: its locals and result
    rq,       \* the event loop's queue of ready callbacks (process steps)
    batch,    \* how many of them the loop runs before it polls again
    fresh     \* transport operations started since the loop polled last

vars ==
    <<dev, procs, clients, cbs, clock, now, calls, fails, notes, fin, rq,
      batch, fresh>>

---------------------------------------------------------------------------
(* Bounds of the model *)
NCallers == 3
MaxTasks == 6
MaxClients == 2
MaxCalls == 4
MaxSendCalls == 3
MaxGuardCalls == 2
MaxTimerCalls == 3
MaxDropCalls == 2
MaxDecodeCalls == 1
MaxDelayed == 1
MaxWriteFails == 2
MaxTime == 3
MaxNotes == 1
MaxTimeout == 3

(* Program constants.  const.py is not part of src/: the ceiling and the   *)
(* idle time are imported at device.py:31-32; the values here are small    *)
(* stand-ins in the model's units.                                         *)
SETTING_MAX_COMMAND_ATTEMPTS == 2
SETTING_DISCONNECT_TIME == 2

(* Python's None for a task, a client and a caller token *)
NoTask == 0
NoClient == 0
NoTime == 0

Callers == 1 .. NCallers
TaskIds == (NCallers + 1) .. (NCallers + MaxTasks)
TimerIds == (NCallers + MaxTasks + 1) .. (NCallers + MaxTasks + MaxTime)
Procs == Callers \cup TaskIds \cup TimerIds
ClientIds == 1 .. MaxClients

DISCONNECTED == "DISCONNECTED"
CONNECTING == "CONNECTING"
CONNECTED == "CONNECTED"
DISCONNECTING == "DISCONNECTING"

Exceptions ==
    {"NotFound", "Slots", "BleakError", "RuntimeError", "Cancelled",
     "NoEndPositions", "NoFavorite", "TypeError"}

Max(S) == CHOOSE x \in S : \A y \in S : y <= x

---------------------------------------------------------------------------
(* The world.  `ok` turns false when the code would need more Task        *)
(* objects than the model has (MaxTasks): such a step is left out.        *)
World ==
    [dev |-> dev, procs |-> procs, clients |-> clients, cbs |-> cbs,
     clock |-> clock, now |-> now, fin |-> fin, rq |-> rq,
     batch |-> batch, fresh |-> fresh, ret |-> "none", ok |-> TRUE]

IoPcs == {"establish", "notify", "write", "disc_wait", "sleep"}

Commit(world) ==
    \E w \in {world} :
        /\ w.ok
        /\ batch' = w.batch
        /\ fresh' = IF w.rq = <<>> /\ w.batch = 0 THEN {}
                  ELSE {p \in w.fresh : w.procs[p].pc \in IoPcs}
        /\ dev' = w.dev
        /\ procs' = w.procs
        /\ clients' = w.clients
        /\ cbs' = w.cbs
        /\ clock' = w.clock
        /\ fin' = w.fin
        /\ rq' = w.rq

Ret(w, r) == [w EXCEPT !.ret = r]

(* Process p starts a transport operation and awaits it at position pc *)
Suspend(w, p, pc) == [w EXCEPT !.procs[p].pc = pc, !.fresh = @ \cup {p}]

InitProc(p) ==
    [pc |-> IF p \in TaskIds THEN "unborn" ELSE "idle",
     op |-> "none",        \* the public call (or "_connect") being run
     flag |-> FALSE,       \* ignore_end_positions_not_set
     delay |-> FALSE,      \* use_notification_delay
     tok |-> NoTime,       \* this_connection_caller_time
     aw |-> NoTask,        \* the task this process awaits / last awaited
     tries |-> 0,          \* number_of_tries
     cl |-> NoClient,      \* the client of the pending write / disconnect
     res |-> "none",       \* what the finished call returned or raised
     cres |-> "none",      \* what connect() returned inside the call
     stage |-> "none",     \* _connect: "set_key" or "status_query"
     cancel |-> FALSE,     \* Task.cancel() requested, not yet delivered
     io |-> "none",        \* how the awaited transport operation ended
     bc |-> NoClient,      \* _connect's local bleak_client
     eff |-> {},           \* what the call's connect() did (history)
     writes |-> 0,         \* write_gatt_char calls of this _send_command
     forced |-> FALSE,     \* _send_command called disconnect()
     killed |-> FALSE,     \* disconnect() cancelled this task before its end
     kill |-> NoTask,      \* the unfinished task this disconnect() cancelled
     seen |-> FALSE,       \* the guard's condition when the call was made
     arg |-> 0,            \* timeout of a refresh_disconnect_timer call
     args |-> <<>>,        \* *args of requires_end_positions' wrapper
     joined |-> {},        \* tokens of the calls that awaited this task
     wq |-> <<>>,          \* the processes that suspended on this task, in order
     wrote |-> 0,          \* facade commands that awaited this task and wrote
     steps |-> <<>>,       \* what this _connect has done so far, in order
     trues |-> {}]         \* tokens of the calls it made return True

---------------------------------------------------------------------------
(* MotionDevice._set_connection, device.py:154-158: the registered         *)
(* connection callback is told the new state.  reported keeps the last     *)
(* value it was told, edges the changes of state it has seen.              *)
set_connection(w, connection_type) ==
    [w EXCEPT !.dev.connection_type = connection_type,
              !.dev.reported = IF w.dev.connection_callback
                               THEN connection_type ELSE @,
              !.dev.edges = IF w.dev.connection_callback
                               /\ w.dev.connection_type # connection_type
                            THEN @ \cup {<<w.dev.connection_type,
                                           connection_type>>}
                            ELSE @]

(* MotionDevice._cancel_disconnect_timer, device.py:160-168: the handle    *)
(* is cancelled but the attribute keeps pointing at it.                    *)
cancel_disconnect_timer(w) ==
    IF w.dev.disconnect_timer = "armed"
    THEN [w EXCEPT !.dev.disconnect_timer = "cancelled"]
    ELSE w

(* The early return with `not force` left out of its condition *)
RefreshIgnoredForced(force, timer, disconnect_time, new_disconnect_time) ==
    /\ timer # "none"
    /\ disconnect_time > new_disconnect_time

(* device.py:177-182: the early return of refresh_disconnect_timer *)
RefreshIgnored(force, timer, disconnect_time, new_disconnect_time) ==
    /\ ~force
    /\ timer # "none"
    /\ disconnect_time > new_disconnect_time

(* MotionDevice.refresh_disconnect_timer, device.py:170-202 *)
refresh_disconnect_timer(w, timeout, force) ==
    LET new_disconnect_time == w.now + timeout
    IN  IF RefreshIgnored(force, w.dev.disconnect_timer,
                          w.dev.disconnect_time, new_disconnect_time)
        THEN w
        ELSE [cancel_disconnect_timer(w) EXCEPT
                 !.dev.disconnect_time = new_disconnect_time,
                 !.dev.disconnect_timer = "armed"]

(* The connection task p has done step s of _connect (history); the calls  *)
(* of the host keep no such record.                                        *)
Step(w, p, s) ==
    IF p \in TaskIds THEN [w EXCEPT !.procs[p].steps = Append(@, s)] ELSE w

(* refresh_disconnect_timer called by p, which is recorded to have armed   *)
(* the timer when the call passes the early return (device.py:188-190).    *)
refresh_by(w, p, timeout, force) ==
    IF RefreshIgnored(force, w.dev.disconnect_timer, w.dev.disconnect_time,
                      w.now + timeout)
    THEN refresh_disconnect_timer(w, timeout, force)
    ELSE Step(refresh_disconnect_timer(w, timeout, force), p, "arm")

(* MotionDevice.is_connected, device.py:376-381 *)
is_connected(w) ==
    /\ w.dev.current_bleak_client # NoClient
    /\ w.clients[w.dev.current_bleak_client] = "alive"

(* MotionDevice._disconnect_callback, device.py:266-270.  The change of    *)
(* state on a peer drop is not entered in edges, which holds the changes   *)
(* the code makes of its own accord.                                       *)
disconnect_callback(w) ==
    [set_connection(w, DISCONNECTED) EXCEPT
        !.dev.current_bleak_client = NoClient,
        !.dev.edges = w.dev.edges]

(* asyncio Task.cancel(): a task that itself awaits another task hands the *)
(* cancellation to that task; a finished task ignores it.                  *)
InQueue(w, p) == \E i \in 1 .. Len(w.rq) : w.rq[i] = p

Enqueue(w, p) == IF InQueue(w, p) THEN w ELSE [w EXCEPT !.rq = Append(@, p)]

RECURSIVE Cancel(_, _)
Cancel(w, t) ==
    IF w.procs[t].pc \in {"done", "unborn"} THEN w
    ELSE IF w.procs[t].pc = "await_task" /\ ~InQueue(w, t)
    THEN Cancel(w, w.procs[t].aw)
    ELSE Enqueue([w EXCEPT !.procs[t].cancel = TRUE], t)

(* The coroutines awaiting task t that are not yet queued to resume, and   *)
(* the same in the order they started to wait (the order in which the     *)
(* task's done-callbacks wake them).                                       *)
Waiters(w, t) ==
    {p \in Procs : w.procs[p].pc = "await_task" /\ w.procs[p].aw = t
                    /\ ~InQueue(w, p)}

(* No coroutine that awaits the finished task t is resumed *)
WaitersForgotten(w, t) ==
    SelectSeq(w.procs[t].wq, LAMBDA p : FALSE)

(* The done-callbacks of task t resume its waiters in the order they      *)
(* started to wait.                                                        *)
WaitersInOrder(w, t) ==
    SelectSeq(w.procs[t].wq, LAMBDA p : p \in Waiters(w, t))

(* A task ends with result r; a public call returns r to the host, which  *)
(* is recorded in fin, and its coroutine is gone.                          *)
Finish(w, p, r) ==
    IF p \in TaskIds
    THEN Ret([w EXCEPT !.procs[p].pc = "done", !.procs[p].res = r,
                       !.procs[p].cancel = FALSE,
                       !.rq = @ \o WaitersInOrder(w, p)], r)
    ELSE Ret([w EXCEPT !.procs[p] = InitProc(p),
                       !.fin = [w.procs[p] EXCEPT !.pc = "idle", !.res = r]], r)

(* The ids of the tasks not yet created.  create_task (device.py:305-314)   *)
(* has no limit; TaskIds is large enough for every task the calls of a     *)
(* specification can create (TaskIdLeft), so an id is free whenever a task *)
(* is created.                                                             *)
FreeTasks(w) == {t \in TaskIds : w.procs[t].pc = "unborn"}

(* device.py:332-334 *)
is_last_caller(last_connection_caller_time, this_connection_caller_time) ==
    last_connection_caller_time = this_connection_caller_time

(* The await without the except clause of device.py:320-323: the errors    *)
(* of establish_connection pass through, nothing is reset.                 *)
await_result_uncaught(w, p, t) ==
    LET r == IF w.procs[p].cancel THEN "Cancelled"
             ELSE IF t = p THEN "RuntimeError"
             ELSE w.procs[t].res
        w0 == [w EXCEPT !.procs[p].pc = "run", !.procs[p].cancel = FALSE]
    IN  CASE r = "false" -> Ret(w0, "false")
          [] r = "Cancelled" ->
                Ret([set_connection(w0, DISCONNECTED) EXCEPT
                        !.dev.connection_task = NoTask,
                        !.procs[p].eff = @ \cup {"state"}], "false")
          [] r = "true" ->
                LET last == is_last_caller(w.dev.last_connection_caller_time,
                                           w.procs[p].tok)
                IN  Ret([w0 EXCEPT
                            !.dev.connection_task = NoTask,
                            !.procs[t].trues =
                                IF last THEN @ \cup {w.procs[p].tok} ELSE @],
                        IF last THEN "true" ELSE "false")
          [] OTHER -> Ret(w0, r)

(* device.py:317-335: what `await self._connection_task` gives process p   *)
(* once task t is done.  A task that awaits itself is resumed with         *)
(* RuntimeError (Task cannot await on itself), or with the CancelledError  *)
(* of a cancel() that came before it was resumed.                          *)
await_result(w, p, t) ==
    LET r == IF w.procs[p].cancel THEN "Cancelled"
             ELSE IF t = p THEN "RuntimeError"
             ELSE w.procs[t].res
        w0 == [w EXCEPT !.procs[p].pc = "run", !.procs[p].cancel = FALSE]
    IN  CASE r = "false" -> Ret(w0, "false")
          [] r \in {"Slots", "NotFound"} ->
                Ret([set_connection(w0, DISCONNECTED) EXCEPT
                        !.dev.connection_task = NoTask,
                        !.procs[p].eff = @ \cup {"state"}], r)
          [] r = "Cancelled" ->
                Ret([set_connection(w0, DISCONNECTED) EXCEPT
                        !.dev.connection_task = NoTask,
                        !.procs[p].eff = @ \cup {"state"}], "false")
          [] r = "true" ->
                LET last == is_last_caller(w.dev.last_connection_caller_time,
                                           w.procs[p].tok)
                IN  Ret([w0 EXCEPT
                            !.dev.connection_task = NoTask,
                            !.procs[t].trues =
                                IF last THEN @ \cup {w.procs[p].tok} ELSE @],
                        IF last THEN "true" ELSE "false")
          [] OTHER -> Ret(w0, r)

(* Task t is suspended in `await self._connection_task` on itself          *)
(* (device.py:318): the await has marked the task as yielded from and the  *)
(* event loop, which found the task awaiting itself, has left the mark.    *)
AwaitsItself(w, t) == w.procs[t].pc = "await_task" /\ w.procs[t].aw = t

(* MotionDevice._connect_if_not_connecting, device.py:296-335, up to the   *)
(* await (and through it when the awaited task is already done).  A task   *)
(* that finds itself in the record awaits itself: the event loop queues    *)
(* one more step of it, which delivers the error.  The await of a task     *)
(* that is suspended awaiting itself finds the task marked and raises      *)
(* RuntimeError (await wasn't used with future) at once, which no except   *)
(* clause catches.  The caller token is the reading of the clock at the    *)
(* call, and the clock moves on after a reading (unless it stalls,         *)
(* ClockStall).                                                            *)
connect_if_not_connecting(w, p) ==
    LET this_connection_caller_time == w.clock
        w1 == [w EXCEPT !.clock = this_connection_caller_time + 1,
                        !.procs[p].tok = this_connection_caller_time,
                        !.dev.last_connection_caller_time =
                            this_connection_caller_time]
        free == FreeTasks(w)
        new == IF free = {} THEN CHOOSE t \in TaskIds : TRUE
               ELSE CHOOSE t \in free : \A u \in free : t <= u
        w2 == IF w1.dev.connection_task # NoTask THEN w1
              ELSE IF free = {} THEN [w1 EXCEPT !.ok = FALSE]
              ELSE [w1 EXCEPT !.dev.connection_task = new,
                              !.rq = Append(@, new),
                              !.procs[new].pc = "created",
                              !.procs[new].op = "_connect",
                              !.procs[new].delay =
                                  (p \in Callers /\ w.procs[p].delay),
                              !.procs[p].eff = @ \cup {"attempt"}]
        t == w2.dev.connection_task
        w3 == [w2 EXCEPT !.procs[p].aw = t,
                         !.procs[p].delay = (p \in TaskIds /\ @),
                         !.procs[t].joined = @ \cup {this_connection_caller_time}]
    IN  IF ~w2.ok THEN w2
        ELSE IF t = p
        THEN Ret([w3 EXCEPT !.procs[p].pc = "await_task",
                            !.rq = Append(@, p)], "wait")
        ELSE IF w3.procs[t].pc = "done" THEN await_result(w3, p, t)
        ELSE IF AwaitsItself(w2, t)
        THEN Ret([w2 EXCEPT !.procs[p].aw = t,
                            !.procs[p].delay = (p \in TaskIds /\ @),
                            !.procs[p].pc = "run"], "RuntimeError")
        ELSE Ret([w3 EXCEPT !.procs[p].pc = "await_task",
                            !.procs[t].wq = Append(@, p)], "wait")

(* MotionDevice.connect, device.py:272-279.  The argument                  *)
(* use_notification_delay of a caller is of no use once the call has       *)
(* passed it on (or has not, on the fast path).                            *)
connect(w, p) ==
    IF ~is_connected(w)
    THEN connect_if_not_connecting(w, p)
    ELSE Ret([refresh_by(w, p, SETTING_DISCONNECT_TIME, FALSE)
                 EXCEPT !.procs[p].eff = @ \cup {"timer"},
                        !.procs[p].delay = (p \in TaskIds /\ @)], "true")

---------------------------------------------------------------------------
(* MotionPositionInfo, device.py:88-97.  FAVORITE is kept as its truth     *)
(* value: True when the high byte is set, else the low byte (an int).      *)
NoInfo == [known |-> FALSE, UP |-> FALSE, DOWN |-> FALSE, FAVORITE |-> FALSE]

BitSet(byte, weight) == (byte \div weight) % 2 = 1

MotionPositionInfo(end_positions_byte, high_byte, low_byte) ==
    [known |-> TRUE,
     UP |-> BitSet(end_positions_byte, 8),
     DOWN |-> BitSet(end_positions_byte, 4),
     FAVORITE |-> (high_byte # 0 \/ low_byte # 0)]

(* requires_end_positions, device.py:51-58: the condition that raises *)
EndPositionsMissing(info, ignore_end_positions_not_set) ==
    /\ info.known
    /\ ~info.UP
    /\ ~ignore_end_positions_not_set

(* requires_favorite_position, device.py:66-73: the condition that raises *)
FavoriteMissing(info) ==
    /\ info.known
    /\ ~info.UP
    /\ ~info.FAVORITE

MoveOps == {"open"}
FacadeOps == MoveOps \cup {"favorite"}

(* The commands whose first parameter is the percentage, device.py:449-459 *)
(* and 489-499                                                             *)
PercentOps == {"percentage", "percentage_tilt"}

---------------------------------------------------------------------------
(* MotionDevice.disconnect, device.py:281-294, up to the await of          *)
(* BleakClient.disconnect() (and to the end when there is no client).      *)
disconnect_start(w, p) ==
    LET w1 == set_connection(w, DISCONNECTING)
        t == w1.dev.connection_task
        unfinished == w1.procs[t].pc # "done"
        w2 == IF t # NoTask
              THEN [cancel_disconnect_timer(Cancel(w1, t)) EXCEPT
                       !.dev.connection_task = NoTask,
                       !.procs[t].killed = @ \/ unfinished,
                       !.procs[p].kill = IF unfinished THEN t ELSE @]
              ELSE w1
    IN  IF w2.dev.current_bleak_client # NoClient
        THEN Ret([Suspend(cancel_disconnect_timer(w2), p, "disc_wait") EXCEPT
                     !.procs[p].cl = w2.dev.current_bleak_client], "wait")
        ELSE Ret(set_connection(w2, DISCONNECTED), "None")

(* device.py:293-294: after BleakClient.disconnect() returned *)
disconnect_finish(w, p) ==
    Ret(set_connection([w EXCEPT !.dev.current_bleak_client = NoClient],
                       DISCONNECTED), "None")

(* The loop condition with <= for < *)
MayTryInclusive(number_of_tries) ==
    number_of_tries <= SETTING_MAX_COMMAND_ATTEMPTS

(* device.py:393: the loop condition of _send_command *)
MayTry(number_of_tries) == number_of_tries < SETTING_MAX_COMMAND_ATTEMPTS

(* device.py:408: the test that guards disconnect-and-raise *)
GiveUp(number_of_tries) == number_of_tries = SETTING_MAX_COMMAND_ATTEMPTS

(* MotionDevice._send_command, device.py:392-406: one pass of the loop up  *)
(* to the await of write_gatt_char; falling out of the loop returns None.  *)
send_iteration(w, p) ==
    IF MayTry(w.procs[p].tries)
    THEN IF w.dev.current_bleak_client # NoClient
         THEN Ret([Suspend(w, p, "write") EXCEPT
                            !.procs[p].cl = w.dev.current_bleak_client,
                            !.procs[p].writes = @ + 1,
                            !.procs = IF p \in Callers
                                         /\ w.procs[p].writes = 0
                                         /\ w.procs[p].aw # NoTask
                                      THEN [@ EXCEPT ![w.procs[p].aw].wrote = @ + 1]
                                      ELSE @], "wait")
         ELSE Ret(w, "false")
    ELSE Ret(w, "None")

(* MotionDevice._send_command, device.py:383-392 *)
send_command(w, p) ==
    send_iteration([w EXCEPT !.procs[p].tries = 0, !.procs[p].writes = 0,
                             !.procs[p].forced = FALSE], p)

(* device.py:407-415: write_gatt_char raised BleakError *)
write_failed(w, p) ==
    IF GiveUp(w.procs[p].tries)
    THEN LET wd == disconnect_start([w EXCEPT !.procs[p].forced = TRUE], p)
         IN  IF wd.ret = "wait" THEN wd ELSE Ret(wd, "BleakError")
    ELSE send_iteration([w EXCEPT !.procs[p].tries = @ + 1], p)

---------------------------------------------------------------------------
(* _connect, device.py:371-374 *)
connect_end(w, t) ==
    Finish(refresh_by([w EXCEPT !.cbs = @ \cup {w.procs[t].bc}], t,
                      SETTING_DISCONNECT_TIME, FALSE), t, "true")

(* What runs after a requires_connection wrapper got connect()'s result    *)
(* (after_connect) and after _send_command returned (after_send), for a    *)
(* facade call of a caller and for set_key / status_query inside _connect. *)
RECURSIVE after_connect(_, _)
RECURSIVE after_send(_, _)
RECURSIVE after_sleep(_, _)
(* _connect, device.py:365-369: after set_key and the optional sleep *)
after_sleep(w, p) ==
    after_connect(connect([w EXCEPT !.procs[p].stage = "status_query"], p), p)

after_send(w, p) ==
    LET r == w.ret
    IN  IF r = "wait" \/ ~w.ok THEN w
        ELSE IF p \notin TaskIds THEN Finish(w, p, r)
        ELSE IF r \in Exceptions THEN Finish(w, p, r)
        ELSE IF w.procs[p].stage = "set_key"
        THEN IF w.procs[p].delay
             THEN Ret(Suspend(w, p, "sleep"), "wait")
             ELSE after_sleep(w, p)
        ELSE connect_end(w, p)

(* requires_connection, device.py:79-85, around the guards (device.py:     *)
(* 47-76) and the command bodies (device.py:417-519)                       *)
after_connect(w, p) ==
    LET r == w.ret
        w1 == [w EXCEPT !.procs[p].cres = r]
        op == w.procs[p].op
    IN  IF r = "wait" \/ ~w.ok THEN w
        ELSE IF op = "connect" THEN Finish(w1, p, r)
        ELSE IF r \in Exceptions THEN Finish(w1, p, r)
        ELSE IF r = "false"
        THEN IF p \in TaskIds THEN after_send(w1, p) ELSE Finish(w1, p, "false")
        ELSE IF op \in MoveOps \cup PercentOps
                /\ EndPositionsMissing(w.dev.end_position_info, w.procs[p].flag)
        THEN Finish(w1, p, "NoEndPositions")
        ELSE IF op = "favorite" /\ FavoriteMissing(w.dev.end_position_info)
        THEN Finish(w1, p, "NoFavorite")
        ELSE IF op \in PercentOps /\ w.procs[p].args = <<>>
        THEN Finish(w1, p, "TypeError")
        ELSE after_send(send_command(w1, p), p)

(* The guard of facade command op would raise on the cached info *)
Rejects(info, op, flag) ==
    \/ op \in MoveOps \cup PercentOps /\ EndPositionsMissing(info, flag)
    \/ op = "favorite" /\ FavoriteMissing(info)

(* A public call starts: the locals of the previous call are gone *)
Fresh(w, p, op, flag) ==
    [w EXCEPT !.procs[p] =
        [InitProc(p) EXCEPT !.pc = "run", !.op = op, !.flag = flag,
                            !.seen = Rejects(w.dev.end_position_info, op, flag)]]

---------------------------------------------------------------------------
(* Notification frames after decryption: the type marker and the bytes at  *)
(* offsets 4, 6 and 7 (device.py:212-251).                                 *)
FrameTypes == {"PERCENT", "RUNNING", "STATUS", "OTHER"}
EndBytes == {4, 8}
PositionBytes == {0}
AngleBytes == {0, 90}
Frames ==
    [type : FrameTypes, b4 : EndBytes, b6 : PositionBytes, b7 : AngleBytes]

(* The angle byte of a full tilt: the divisor at device.py:225 and 244 *)
MaxAngle == 180

(* Python's round(n / d) for naturals n and d > 0: to the nearest integer, *)
(* a tie to the even one.                                                  *)
PyRoundDown(n, d) == n \div d

PyRound(n, d) ==
    LET q == n \div d
        r == n % d
    IN  IF 2 * r < d THEN q
        ELSE IF 2 * r > d THEN q + 1
        ELSE IF q % 2 = 0 THEN q ELSE q + 1

(* device.py:225 and 244: angle_percentage = round(100 * angle / 180) *)
angle_percentage(angle) == PyRound(100 * angle, MaxAngle)

(* MotionDevice._notification_callback, device.py:204-264.  The tilt      *)
(* percentage handed to the position or status callback is kept in         *)
(* dev.angle_percentage.                                                   *)
notification_callback(w, f) ==
    IF f.type = "PERCENT" /\ w.dev.position_callback
    THEN [w EXCEPT !.dev.end_position_info = MotionPositionInfo(f.b4, f.b6, f.b7),
                   !.dev.angle_percentage = angle_percentage(f.b7)]
    ELSE IF f.type = "RUNNING" /\ w.dev.running_callback
    THEN w
    ELSE IF f.type = "STATUS" /\ w.dev.status_callback
    THEN [w EXCEPT !.dev.end_position_info = MotionPositionInfo(f.b4, f.b6, f.b7),
                   !.dev.angle_percentage = angle_percentage(f.b7)]
    ELSE w

---------------------------------------------------------------------------
(* The state after MotionDevice.__init__, device.py:100-138 *)
Init ==
    /\ dev = [connection_type |-> DISCONNECTED,
              current_bleak_client |-> NoClient,
              connection_task |-> NoTask,
              last_connection_caller_time |-> NoTime,
              disconnect_timer |-> "none",
              disconnect_time |-> NoTime,
              end_position_info |-> NoInfo,
              position_callback |-> FALSE,
              running_callback |-> FALSE,
              status_callback |-> FALSE,
              connection_callback |-> FALSE,
              reported |-> "none",
              edges |-> {},
              angle_percentage |-> -1]      \* nothing reported yet
    /\ procs = [p \in Procs |-> InitProc(p)]
    /\ clients = [c \in ClientIds |-> "unused"]
    /\ cbs = {}
    /\ clock = 1
    /\ now = 0
    /\ calls = 0
    /\ fails = 0
    /\ notes = 0
    /\ fin = InitProc(1)
    /\ rq = <<>>
    /\ batch = 0
    /\ fresh = {}

(* Idle callers are alike: the lowest-numbered one makes the next call *)
MayCall(p) ==
    /\ procs[p].pc = "idle"
    /\ \A q \in Callers : q < p => procs[q].pc # "idle"

(* The host's call is a callback of the event loop.  It runs behind the    *)
(* callbacks of the iteration that have run: what it queues waits for the  *)
(* next iteration, as do the callbacks still queued once those of the      *)
(* iteration are used up.  Or (head) it is the first callback of a new     *)
(* iteration, of which the callbacks now queued are the rest: they run     *)
(* before the loop polls again, and what the call queues comes after that  *)
(* poll.                                                                   *)
Host(head) ==
    IF head THEN [World EXCEPT !.batch = Len(rq), !.fresh = {}] ELSE World

(* A new iteration can start with the call when the callbacks of the last  *)
(* one are used up and others are queued.                                  *)
Heads == IF batch = 0 /\ rq # <<>> THEN BOOLEAN ELSE {FALSE}

(* A caller calls connect(use_notification_delay), device.py:272 *)
CallConnect(p, use_notification_delay) ==
    /\ MayCall(p)
    /\ \E head \in Heads :
          Commit(after_connect(connect(
              [Fresh(Host(head), p, "connect", FALSE) EXCEPT
                  !.procs[p].delay = use_notification_delay], p), p))
    /\ calls' = calls + 1
    /\ UNCHANGED <<now, fails, notes>>

(* A caller calls disconnect(), device.py:281 *)
CallDisconnect(p) ==
    /\ MayCall(p)
    /\ \E head \in Heads :
          LET w == disconnect_start(Fresh(Host(head), p, "disconnect", FALSE), p)
          IN  Commit(IF w.ret = "wait" THEN w ELSE Finish(w, p, "None"))
    /\ calls' = calls + 1
    /\ UNCHANGED <<now, fails, notes>>

(* A caller calls open(flag) or favorite(), device.py:461-487 (close,      *)
(* open_tilt and close_tilt, device.py:468-519, are as open)               *)
CallCommand(p, op, flag) ==
    /\ MayCall(p)
    /\ \E head \in Heads :
          Commit(after_connect(connect(Fresh(Host(head), p, op, flag), p), p))
    /\ calls' = calls + 1
    /\ UNCHANGED <<now, fails, notes>>

(* Python's truth value of an int *)
Truthy(n) == n # 0

(* A caller calls percentage(percentage, *args) or percentage_tilt(        *)
(* percentage, *args) with positional arguments, device.py:449-459 and     *)
(* 489-499.  The wrapper of requires_end_positions (device.py:48-59) takes *)
(* the first positional argument, the percentage, for                      *)
(* ignore_end_positions_not_set and hands the others to the command, which *)
(* takes the first of them for its percentage and raises TypeError when    *)
(* there is none.                                                          *)
CallPercentage(p, op, percentage, args) ==
    /\ MayCall(p)
    /\ \E head \in Heads :
          Commit(after_connect(connect(
              [Fresh(Host(head), p, op, Truthy(percentage)) EXCEPT
                  !.procs[p].args = args], p), p))
    /\ calls' = calls + 1
    /\ UNCHANGED <<now, fails, notes>>

Percentages == {0, 50}

(* The positional arguments after the percentage: none, or the flag *)
Positional == {<<>>, <<FALSE>>}

(* register_position_callback / register_running_callback /               *)
(* register_connection_callback / register_status_callback, device.py:     *)
(* 521-539: the attribute is set to the argument, a callable (callback     *)
(* TRUE) or None (callback FALSE).                                         *)
CallbackKinds == {"position", "running", "connection", "status"}

Register(kind, callback) ==
    /\ dev' = CASE kind = "position" ->
                     [dev EXCEPT !.position_callback = callback]
               [] kind = "running" ->
                     [dev EXCEPT !.running_callback = callback]
               [] kind = "connection" ->
                     [dev EXCEPT !.connection_callback = callback]
               [] kind = "status" ->
                     [dev EXCEPT !.status_callback = callback]
    /\ UNCHANGED <<procs, clients, cbs, clock, now, calls, fails, notes, fin, rq,
                   batch, fresh>>

(* The process whose step the event loop runs next *)
Runs(p) == rq # <<>> /\ Head(rq) = p

(* The loop takes the next ready callback; when the callbacks of the       *)
(* iteration are used up it has polled, and the queue is the next batch.   *)
Run ==
    [World EXCEPT !.rq = Tail(rq),
                  !.batch = (IF batch = 0 THEN Len(rq) ELSE batch) - 1,
                  !.fresh = IF batch = 0 THEN {} ELSE fresh,
                  !.procs[Head(rq)].io = "none"]

(* The poll of the event loop can find an event now: the ready callbacks   *)
(* of the iteration have run.                                              *)
Polled == batch = 0

(* The poll can find the operation that p awaits completed *)
Landed(p) ==
    /\ Polled
    /\ ~InQueue(World, p)
    /\ p \notin fresh \/ rq = <<>>

(* `await self._connection_task` resumes: the task is done, device.py:318 *)
Wake(p) ==
    /\ Runs(p)
    /\ procs[p].pc = "await_task"
    /\ Commit(after_connect(await_result(Run, p, procs[p].aw), p))
    /\ UNCHANGED <<now, calls, fails, notes>>

(* The first step of a connection task, device.py:339-346 *)
TaskStart(t) ==
    /\ Runs(t)
    /\ procs[t].pc = "created"
    /\ ~procs[t].cancel
    /\ Commit(IF dev.connection_type = CONNECTING
              THEN Finish(Run, t, "false")
              ELSE Suspend(Step(set_connection(Run, CONNECTING), t,
                                "CONNECTING"), t, "establish"))
    /\ UNCHANGED <<now, calls, fails, notes>>

(* The transport operation a process awaits ends (io): its coroutine is    *)
(* queued to resume.                                                       *)
Completes(p, pc, io) ==
    /\ procs[p].pc = pc
    /\ Landed(p)
    /\ Commit([World EXCEPT !.procs[p].io = io, !.rq = Append(rq, p)])

(* The adapter can grant one more link: the links it has not handed out    *)
(* outnumber the attempts whose establish_connection has a link to return. *)
SlotFree ==
    Cardinality({c \in ClientIds : clients[c] = "unused"}) >
        Cardinality({t \in TaskIds : procs[t].pc = "establish"
                                        /\ procs[t].io = "ok"})

(* establish_connection ends: connected, or one of its errors *)
EstablishEnds(t, io) ==
    /\ io = "ok" => SlotFree
    /\ Completes(t, "establish", io)
    /\ UNCHANGED <<now, calls, fails, notes>>

(* start_notify ends *)
NotifyEnds(t) ==
    /\ Completes(t, "notify", IF clients[procs[t].bc] = "alive" THEN "ok" ELSE "fail")
    /\ UNCHANGED <<now, calls, fails, notes>>

(* write_gatt_char ends: written *)
WriteEnds(p) ==
    /\ procs[p].pc = "write"
    /\ clients[procs[p].cl] = "alive"
    /\ Completes(p, "write", "ok")
    /\ UNCHANGED <<now, calls, fails, notes>>

(* write_gatt_char ends: BleakError *)
WriteBreaks(p) ==
    /\ fails < MaxWriteFails
    /\ Completes(p, "write", "fail")
    /\ fails' = fails + 1
    /\ UNCHANGED <<now, calls, notes>>

(* write_gatt_char ends: BleakError, the client is not connected *)
WriteLost(p) ==
    /\ procs[p].pc = "write"
    /\ clients[procs[p].cl] = "dead"
    /\ Completes(p, "write", "fail")
    /\ UNCHANGED <<now, calls, fails, notes>>

(* BleakClient.disconnect() ends: the link is down, and bleak has told the *)
(* client's disconnected callback if one is set.                           *)
DisconnectEnds(p) ==
    /\ procs[p].pc = "disc_wait"
    /\ Landed(p)
    /\ LET c == procs[p].cl
           w == [World EXCEPT !.procs[p].io = "ok", !.rq = Append(rq, p)]
           wd == [w EXCEPT !.clients[c] = "dead"]
       IN  Commit(IF clients[c] # "alive" THEN w
                  ELSE IF c \in cbs THEN disconnect_callback(wd) ELSE wd)
    /\ UNCHANGED <<now, calls, fails, notes>>

(* establish_connection returned a connected client, device.py:346-360 *)
EstablishOk(t) ==
    /\ Runs(t)
    /\ procs[t].pc = "establish"
    /\ procs[t].io = "ok"
    /\ ~procs[t].cancel
    /\ \E c \in ClientIds :
          /\ clients[c] = "unused"
          /\ \A d \in ClientIds : clients[d] = "unused" => c <= d
          /\ Commit([Suspend(Step(set_connection(Run, CONNECTED), t,
                                  "establish_connection"), t, "notify") EXCEPT
                        !.clients[c] = "alive",
                        !.dev.current_bleak_client = c,
                        !.procs[t].bc = c])
    /\ UNCHANGED <<now, calls, fails, notes>>

(* establish_connection raised, device.py:346 *)
EstablishFail(t) ==
    /\ Runs(t)
    /\ procs[t].pc = "establish"
    /\ procs[t].io \in {"NotFound", "Slots", "BleakError"}
    /\ ~procs[t].cancel
    /\ Commit(Finish(Run, t, procs[t].io))
    /\ UNCHANGED <<now, calls, fails, notes>>

(* start_notify returned, then set_key() runs to its first await,          *)
(* device.py:357-363                                                       *)
NotifyDone(t) ==
    /\ Runs(t)
    /\ procs[t].pc = "notify"
    /\ ~procs[t].cancel
    /\ Commit(IF procs[t].io = "ok"
              THEN after_connect(
                       connect(Step([Run EXCEPT !.procs[t].stage = "set_key"],
                                    t, "start_notify"), t), t)
              ELSE Finish(Run, t, "BleakError"))
    /\ UNCHANGED <<now, calls, fails, notes>>

(* sleep(SETTING_NOTIFICATION_DELAY) is over, device.py:365-366 *)
SleepEnds(t) ==
    /\ Completes(t, "sleep", "ok")
    /\ UNCHANGED <<now, calls, fails, notes>>

(* _connect goes on with status_query, device.py:369 *)
SleepDone(t) ==
    /\ Runs(t)
    /\ procs[t].pc = "sleep"
    /\ ~procs[t].cancel
    /\ Commit(after_sleep(Run, t))
    /\ UNCHANGED <<now, calls, fails, notes>>

(* The CancelledError of Task.cancel() reaches the task at its await *)
TaskCancelled(t) ==
    /\ Runs(t)
    /\ procs[t].pc \notin {"unborn", "done", "await_task"}
    /\ procs[t].cancel
    /\ Commit(Finish(Run, t, "Cancelled"))
    /\ UNCHANGED <<now, calls, fails, notes>>

(* write_gatt_char returned, device.py:397-404 *)
WriteOk(p) ==
    /\ Runs(p)
    /\ procs[p].pc = "write"
    /\ procs[p].io = "ok"
    /\ ~procs[p].cancel
    /\ Commit(after_send(Ret(Step([Run EXCEPT !.procs[p].pc = "run"], p,
                                   procs[p].stage), "true"), p))
    /\ UNCHANGED <<now, calls, fails, notes>>

(* write_gatt_char raised BleakError, device.py:407-415 *)
WriteFail(p) ==
    /\ Runs(p)
    /\ procs[p].pc = "write"
    /\ procs[p].io = "fail"
    /\ ~procs[p].cancel
    /\ Commit(after_send(write_failed([Run EXCEPT !.procs[p].pc = "run"], p), p))
    /\ UNCHANGED <<now, calls, fails, notes>>

(* BleakClient.disconnect() returned, device.py:292-294 *)
DisconnectDone(p) ==
    /\ Runs(p)
    /\ procs[p].pc = "disc_wait"
    /\ ~procs[p].cancel
    /\ Commit(Finish(disconnect_finish(Run, p), p,
                     IF procs[p].forced THEN "BleakError" ELSE "None"))
    /\ UNCHANGED <<now, calls, fails, notes>>

(* The disconnect timer fires and creates a _disconnect_later task,        *)
(* device.py:188-202.  Every firing creates a new task, q; a deadline is   *)
(* later than the moment it is set, so the timer fires at most once per    *)
(* unit of time and TimerIds holds a task for every firing.                *)
TimerFire(q) ==
    /\ Polled
    /\ dev.disconnect_timer = "armed"
    /\ dev.disconnect_time <= now
    /\ procs[q].pc = "idle"
    /\ \A r \in TimerIds : r < q => procs[r].pc # "idle"
    /\ Commit([Fresh(World, q, "disconnect", FALSE) EXCEPT
                  !.dev.disconnect_timer = "fired",
                  !.procs[q].pc = "created",
                  !.rq = Append(rq, q)])
    /\ UNCHANGED <<now, calls, fails, notes>>

(* _disconnect_later runs: await self.disconnect(), device.py:188-190 *)
TimerDisconnect(q) ==
    /\ Runs(q)
    /\ procs[q].pc = "created"
    /\ LET w == disconnect_start(Run, q)
       IN  Commit(IF w.ret = "wait" THEN w ELSE Finish(w, q, "None"))
    /\ UNCHANGED <<now, calls, fails, notes>>

(* Time passes; a due timer fires before time moves on *)
Tick ==
    /\ now < MaxTime
    /\ ~(dev.disconnect_timer = "armed" /\ dev.disconnect_time <= now)
    /\ now' = now + 1
    /\ UNCHANGED <<dev, procs, clients, cbs, clock, calls, fails, notes, fin, rq,
                   batch, fresh>>

(* The peer drops the link; bleak calls the disconnected callback if set *)
PeerDrop(c) ==
    /\ Polled
    /\ clients[c] = "alive"
    /\ LET w == [World EXCEPT !.clients[c] = "dead"]
       IN  Commit(IF c \in cbs THEN disconnect_callback(w) ELSE w)
    /\ UNCHANGED <<now, calls, fails, notes>>

(* A notification arrives on a live, subscribed client *)
Notification(f) ==
    /\ Polled
    /\ notes < MaxNotes
    /\ \E t \in TaskIds :
          /\ procs[t].stage # "none"
          /\ clients[procs[t].bc] = "alive"
    /\ Commit(notification_callback(World, f))
    /\ notes' = notes + 1
    /\ UNCHANGED <<now, calls, fails>>

(* The next connect() comes within the resolution of the clock: its        *)
(* time_ns() returns the value the last caller token was read from.        *)
ClockStall ==
    /\ dev.last_connection_caller_time # NoTime
    /\ clock = dev.last_connection_caller_time + 1
    /\ clock' = dev.last_connection_caller_time
    /\ UNCHANGED <<dev, procs, clients, cbs, now, calls, fails, notes, fin, rq,
                   batch, fresh>>

(* A caller calls refresh_disconnect_timer(timeout, force), device.py:170 *)
CallRefresh(p, timeout, force) ==
    /\ calls' = calls + 1
    /\ UNCHANGED <<now, fails, notes>>
    /\ MayCall(p)
    /\ Commit(Finish(refresh_disconnect_timer(
                         [Fresh(World, p, "refresh", force) EXCEPT
                             !.procs[p].arg = timeout], timeout, force),
                     p, "None"))

Timeouts == 1 .. MaxTimeout

(* The host makes at most n calls of the public API *)
Budget(n) == calls < n

(* The host asks for the notification delay in at most MaxDelayed of the   *)
(* connect() calls that start an attempt.                                  *)
MayDelay(use_notification_delay) ==
    use_notification_delay =>
        Cardinality({t \in TaskIds : procs[t].delay}) < MaxDelayed

(* The links that are down *)
Dropped == {c \in ClientIds : clients[c] = "dead"}

(* The steps of the connection tasks, of the waiters and of the pending    *)
(* writes, with a transport whose operations succeed while the link is up  *)
Steps ==
    \/ \E p \in Procs : Wake(p)
    \/ \E t \in TaskIds : TaskStart(t)
    \/ \E t \in TaskIds : EstablishEnds(t, "ok")
    \/ \E t \in TaskIds : EstablishOk(t)
    \/ \E t \in TaskIds : NotifyEnds(t)
    \/ \E t \in TaskIds : NotifyDone(t)
    \/ \E t \in TaskIds : TaskCancelled(t)
    \/ \E p \in Procs : WriteEnds(p)
    \/ \E p \in Procs : WriteOk(p)
    \/ \E p \in Procs : WriteLost(p)
    \/ \E p \in Procs : WriteFail(p)
    \/ \E p \in Procs : DisconnectEnds(p)
    \/ \E p \in Procs : DisconnectDone(p)

(* The same with a peer that may drop the link *)
Coordinator ==
    \/ Steps
    \/ \E c \in ClientIds : PeerDrop(c)

(* The connection coordinator: concurrent connect() (without the          *)
(* notification delay) and disconnect() calls and every outcome of         *)
(* establish_connection.                                                   *)
Next ==
    \/ \E p \in Callers : Budget(MaxCalls) /\ CallConnect(p, FALSE)
    \/ \E p \in Callers : Budget(MaxCalls) /\ CallDisconnect(p)
    \/ \E t \in TaskIds, e \in {"NotFound", "Slots", "BleakError"} :
          EstablishEnds(t, e)
    \/ \E t \in TaskIds : EstablishFail(t)
    \/ Coordinator

Spec == Init /\ [][Next]_vars

(* The command dispatcher: facade commands and disconnect() calls over a   *)
(* transport whose writes may fail.                                        *)
NextSend ==
    \/ \E p \in Callers : Budget(MaxSendCalls) /\ CallCommand(p, "open", TRUE)
    \/ \E p \in Callers : Budget(MaxSendCalls) /\ CallDisconnect(p)
    \/ \E p \in Procs : WriteBreaks(p)
    \/ Coordinator

SpecSend == Init /\ [][NextSend]_vars

(* The guards: facade commands, percentage() (percentage_tilt() is alike),  *)
(* disconnect(), callback registration and notifications, with a device    *)
(* that may be out of reach.  The peer may drop the link while no link is  *)
(* down yet.                                                               *)
NextGuard ==
    \/ \E p \in Callers, op \in FacadeOps, flag \in BOOLEAN :
          Budget(MaxGuardCalls) /\ CallCommand(p, op, flag)
    \/ \E p \in Callers, percentage \in Percentages, args \in Positional :
          Budget(MaxGuardCalls) /\ CallPercentage(p, "percentage", percentage, args)
    \/ \E p \in Callers : Budget(MaxGuardCalls) /\ CallDisconnect(p)
    \/ \E t \in TaskIds : EstablishEnds(t, "NotFound")
    \/ \E t \in TaskIds : EstablishFail(t)
    \/ \E kind \in {"position", "status"} : Register(kind, TRUE)
    \/ \E f \in Frames : Notification(f)
    \/ \E c \in ClientIds : Dropped = {} /\ PeerDrop(c)
    \/ Steps

SpecGuard == Init /\ [][NextGuard]_vars

(* The disconnect timer: connect() (without the notification delay),       *)
(* disconnect() and refresh_disconnect_timer() calls while time passes and *)
(* the timer fires.  The peer may drop the link while no link is down yet. *)
NextTimer ==
    \/ \E p \in Callers : Budget(MaxTimerCalls) /\ CallConnect(p, FALSE)
    \/ \E p \in Callers : Budget(MaxTimerCalls) /\ CallDisconnect(p)
    \/ \E p \in Callers, timeout \in Timeouts, force \in BOOLEAN :
          Budget(MaxTimerCalls) /\ CallRefresh(p, timeout, force)
    \/ \E q \in TimerIds : TimerFire(q)
    \/ \E q \in TimerIds : TimerDisconnect(q)
    \/ Tick
    \/ \E c \in ClientIds : Dropped = {} /\ PeerDrop(c)
    \/ Steps

SpecTimer == Init /\ [][NextTimer]_vars

(* Connection events: connect() and disconnect() calls with a connection   *)
(* callback that the host registers at some moment.                        *)
NextDrop ==
    \/ \E p \in Callers, use_notification_delay \in BOOLEAN :
          /\ Budget(MaxDropCalls)
          /\ MayDelay(use_notification_delay)
          /\ CallConnect(p, use_notification_delay)
    \/ \E t \in TaskIds : SleepEnds(t)
    \/ \E t \in TaskIds : SleepDone(t)
    \/ \E p \in Callers : Budget(MaxDropCalls) /\ CallDisconnect(p)
    \/ \E callback \in BOOLEAN : Register("connection", callback)
    \/ Coordinator

SpecDrop == Init /\ [][NextDrop]_vars

(* Progress: connect() and disconnect() calls over a transport whose       *)
(* operations all end, well or badly, and an event loop that runs every    *)
(* ready callback.  The peer may drop the link while no link is down yet.  *)
MaxLiveCalls == 3

NextLive ==
    \/ \E p \in Callers, use_notification_delay \in BOOLEAN :
          /\ Budget(MaxLiveCalls)
          /\ MayDelay(use_notification_delay)
          /\ CallConnect(p, use_notification_delay)
    \/ \E t \in TaskIds : SleepEnds(t)
    \/ \E t \in TaskIds : SleepDone(t)
    \/ \E p \in Callers : Budget(MaxLiveCalls) /\ CallDisconnect(p)
    \/ \E c \in ClientIds : Dropped = {} /\ PeerDrop(c)
    \/ \E t \in TaskIds, e \in {"ok", "NotFound", "Slots", "BleakError"} :
          EstablishEnds(t, e)
    \/ \E p \in Procs : Wake(p)
    \/ \E t \in TaskIds : TaskStart(t)
    \/ \E t \in TaskIds : EstablishOk(t)
    \/ \E t \in TaskIds : EstablishFail(t)
    \/ \E t \in TaskIds : NotifyEnds(t)
    \/ \E t \in TaskIds : NotifyDone(t)
    \/ \E t \in TaskIds : TaskCancelled(t)
    \/ \E p \in Procs : WriteEnds(p)
    \/ \E p \in Procs : WriteOk(p)
    \/ \E p \in Procs : WriteLost(p)
    \/ \E p \in Procs : WriteFail(p)
    \/ \E p \in Procs : DisconnectEnds(p)
    \/ \E p \in Procs : DisconnectDone(p)

(* The event loop runs the callback at the head of its ready queue *)
LoopStep ==
    \/ \E p \in Procs : Wake(p)
    \/ \E t \in TaskIds : TaskStart(t)
    \/ \E t \in TaskIds : EstablishOk(t)
    \/ \E t \in TaskIds : EstablishFail(t)
    \/ \E t \in TaskIds : NotifyDone(t)
    \/ \E t \in TaskIds : SleepDone(t)
    \/ \E t \in TaskIds : TaskCancelled(t)
    \/ \E p \in Procs : WriteOk(p)
    \/ \E p \in Procs : WriteFail(p)
    \/ \E p \in Procs : DisconnectDone(p)

(* The transport operation that p awaits completes or fails *)
TransportEnds(p) ==
    \/ \E io \in {"ok", "NotFound", "Slots", "BleakError"} :
          p \in TaskIds /\ EstablishEnds(p, io)
    \/ p \in TaskIds /\ NotifyEnds(p)
    \/ p \in TaskIds /\ SleepEnds(p)
    \/ WriteEnds(p)
    \/ WriteLost(p)
    \/ DisconnectEnds(p)

SpecLive ==
    /\ Init
    /\ [][NextLive]_vars
    /\ WF_vars(LoopStep)
    /\ \A p \in Procs : WF_vars(TransportEnds(p))

(* Decoding: one connection over which a position or status frame with    *)
(* any angle byte up to the full tilt arrives.                             *)
AngleFrames ==
    [type : {"PERCENT", "STATUS"}, b4 : {8}, b6 : {0}, b7 : 0 .. MaxAngle]

NextDecode ==
    \/ \E p \in Callers, use_notification_delay \in BOOLEAN :
          /\ Budget(MaxDecodeCalls)
          /\ MayDelay(use_notification_delay)
          /\ CallConnect(p, use_notification_delay)
    \/ \E t \in TaskIds : SleepEnds(t)
    \/ \E t \in TaskIds : SleepDone(t)
    \/ \E kind \in CallbackKinds \ {"connection"}, callback \in BOOLEAN :
          Register(kind, callback)
    \/ \E f \in AngleFrames : Notification(f)
    \/ \E p \in Procs : Wake(p)
    \/ \E t \in TaskIds : TaskStart(t)
    \/ \E t \in TaskIds : EstablishEnds(t, "ok")
    \/ \E t \in TaskIds : EstablishOk(t)
    \/ \E t \in TaskIds : NotifyEnds(t)
    \/ \E t \in TaskIds : NotifyDone(t)
    \/ \E p \in Procs : WriteEnds(p)
    \/ \E p \in Procs : WriteOk(p)

SpecDecode == Init /\ [][NextDecode]_vars

(* Coalescing: facade commands and disconnect() calls that may come within *)
(* the resolution of the clock.                                            *)
NextCoalesce ==
    \/ \E p \in Callers : Budget(MaxSendCalls) /\ CallCommand(p, "open", TRUE)
    \/ \E p \in Callers : Budget(MaxSendCalls) /\ CallDisconnect(p)
    \/ ClockStall
    \/ Coordinator

SpecCoalesce == Init /\ [][NextCoalesce]_vars

---------------------------------------------------------------------------
(* The bound on the tasks never cuts a step: in every reachable state of   *)
(* every specification a task id is unused, so create_task (device.py:     *)
(* 305-314) always finds one.                                              *)
TaskIdLeft == \E t \in TaskIds : procs[t].pc = "unborn"

(* A physical connection attempt in flight: a _connect task that passed    *)
(* its CONNECTING check (device.py:339-342), has not finished and has not  *)
(* been cancelled.                                                         *)
InFlight(t) ==
    /\ procs[t].pc \in {"establish", "notify", "write", "sleep", "await_task",
                       "disc_wait"}
    /\ ~procs[t].cancel

(* C2: in every reachable state at most one physical connection attempt    *)
(* is in flight for the device.                                            *)
C2_AtMostOneAttemptInFlight ==
    Cardinality({t \in TaskIds : InFlight(t)}) <= 1

(* The processes suspended in `await self._connection_task` on task t *)
Waiting(t) == {p \in Procs : procs[p].pc = "await_task" /\ procs[p].aw = t}

(* C1: of the connect() calls coalesced onto one connection attempt that   *)
(* succeeded, exactly the one that stamped the latest caller token got     *)
(* True (every other one got False), once all of them have returned.       *)
C1_LatestCoalescedCallerGetsTrue ==
    \A t \in TaskIds :
        (/\ procs[t].pc = "done"
         /\ procs[t].res = "true"
         /\ procs[t].joined # {}
         /\ Waiting(t) = {})
        => procs[t].trues = {Max(procs[t].joined)}

(* disconnect() found the unfinished attempt t in _connection_task, and    *)
(* that call and the callers that waited on t have all returned.           *)
AllReturned(t) ==
    /\ procs[t].killed
    /\ Waiting(t) \cap Callers = {}
    /\ \A p \in Procs : procs[p].kill # t

(* Caller p, which waited on an attempt that disconnect() found            *)
(* unfinished in _connection_task, returns in this step.                   *)
WaiterReturns(p) ==
    /\ procs[p].pc = "await_task"
    /\ procs[procs[p].aw].killed
    /\ procs'[p].pc = "idle"

(* C3: when disconnect() is called while _connection_task holds an         *)
(* unfinished attempt, every caller waiting on that attempt returns false, *)
(* and in the step in which the last of disconnect() and those waiters     *)
(* returns the state is DISCONNECTED, _connection_task holds neither that  *)
(* attempt nor an older one, and the disconnect timer is not armed.        *)
C3_DisconnectResolvesWaiters ==
    [][/\ \A p \in Callers : WaiterReturns(p) => fin'.res = "false"
       /\ \A t \in TaskIds :
             (~AllReturned(t) /\ AllReturned(t)')
             => /\ dev'.connection_type = DISCONNECTED
                /\ dev'.connection_task = NoTask \/ dev'.connection_task > t
                /\ dev'.disconnect_timer # "armed"]_vars

(* C4: a command whose every write failed until the attempt ceiling was    *)
(* reached has called disconnect() and raised the error to its caller.     *)
C4_ExhaustedCommandDisconnectsAndRaises ==
    (/\ fin.op \in FacadeOps
     /\ fin.tries = SETTING_MAX_COMMAND_ATTEMPTS
     /\ fin.writes = SETTING_MAX_COMMAND_ATTEMPTS)
    => (fin.forced /\ fin.res = "BleakError")

(* C5: a command whose write succeeded after k failures returned True      *)
(* after k + 1 writes, with k below the ceiling and without calling        *)
(* disconnect(); no _send_command makes more writes than the ceiling.      *)
C5_RetryThenSuccess ==
    [][/\ \A p \in Callers :
             WriteOk(p) => /\ fin'.res = "true"
                           /\ fin'.tries < SETTING_MAX_COMMAND_ATTEMPTS
                           /\ fin'.writes = fin'.tries + 1
                           /\ ~fin'.forced
       /\ \A p \in Procs : procs'[p].writes <= SETTING_MAX_COMMAND_ATTEMPTS
       /\ fin'.writes <= SETTING_MAX_COMMAND_ATTEMPTS]_vars

(* C5 witness: a command returned True on its last allowed write *)
C5_Witness ==
    /\ fin.op \in FacadeOps
    /\ fin.res = "true"
    /\ fin.tries = SETTING_MAX_COMMAND_ATTEMPTS - 1
    /\ fin.writes = SETTING_MAX_COMMAND_ATTEMPTS

(* C6: a command that its guard rejected has not called connect(): it      *)
(* started no attempt, changed no state and refreshed no timer.            *)
C6_RejectedCommandDidNotConnect ==
    fin.res \in {"NoEndPositions", "NoFavorite"} => fin.eff = {}

(* C7: a movement command made without the bypass flag while the cached    *)
(* info was known with UP false raised NoEndPositionsException and wrote   *)
(* nothing; with known info, UP false and the bypass flag, or with unknown *)
(* info, the guard has not raised.                                         *)
C7_UncalibratedMoveRaises ==
    /\ (fin.op \in MoveOps /\ fin.seen /\ Rejects(dev.end_position_info, fin.op, fin.flag))
       => (fin.res = "NoEndPositions" /\ fin.writes = 0)
    /\ (fin.op \in MoveOps /\ (fin.flag \/ ~dev.end_position_info.known))
       => fin.res # "NoEndPositions"

(* C8: once an attempt has ended and no caller waits on it any more, it is *)
(* not the task recorded in _connection_task.                              *)
C8_RecordClearedAfterAttempt ==
    \A t \in TaskIds :
        (procs[t].pc = "done" /\ Waiting(t) = {}) => dev.connection_task # t

(* A connect() call that awaited an attempt which failed with              *)
(* slots-exhausted or not-found returns in this step.                      *)
FailedWaiterReturns ==
    /\ fin' # fin
    /\ fin'.op = "connect"
    /\ fin'.aw # NoTask
    /\ procs'[fin'.aw].pc = "done"
    /\ procs'[fin'.aw].res \in {"Slots", "NotFound"}

(* C9: every connect() call coalesced onto an attempt that failed with     *)
(* slots-exhausted or not-found raises that error, and when it returns the *)
(* state is DISCONNECTED and _connection_task is cleared.                  *)
C9_ConnectErrorsReachEveryWaiter ==
    [][FailedWaiterReturns
       => /\ fin'.res = procs'[fin'.aw].res
          /\ dev'.connection_type = DISCONNECTED
          /\ dev'.connection_task = NoTask]_vars

(* C9 witness: two coalesced connect() calls have both returned from an    *)
(* attempt that failed with slots-exhausted, the last with that error.     *)
C9_Witness ==
    /\ fin.op = "connect"
    /\ fin.res = "Slots"
    /\ fin.aw # NoTask
    /\ procs[fin.aw].res = "Slots"
    /\ Cardinality(procs[fin.aw].joined) >= 2
    /\ Waiting(fin.aw) = {}

(* C10: a refresh_disconnect_timer(timeout) call with force false never    *)
(* moves an armed deadline earlier, and changes nothing when the armed     *)
(* deadline is later than now + timeout; with force true it always arms    *)
(* the timer with the deadline now + timeout.                              *)
C10_RefreshNeverShortens ==
    [][\A p \in Callers, timeout \in Timeouts, force \in BOOLEAN :
          CallRefresh(p, timeout, force)
          => IF force
             THEN /\ dev'.disconnect_timer = "armed"
                  /\ dev'.disconnect_time = now + timeout
             ELSE /\ dev.disconnect_timer = "armed"
                     => dev'.disconnect_time >= dev.disconnect_time
                  /\ (dev.disconnect_timer = "armed"
                      /\ dev.disconnect_time > now + timeout) => dev' = dev]_vars

(* C10 witness: a refresh without force has just returned and the armed    *)
(* deadline is later than now + its timeout.                               *)
C10_Witness ==
    /\ fin.op = "refresh"
    /\ ~fin.flag
    /\ dev.disconnect_timer = "armed"
    /\ dev.disconnect_time > now + fin.arg

(* The physical connections that are established and not yet torn down *)
ActiveConnections == {c \in ClientIds : clients[c] = "alive"}

(* C11: in every reachable state the device has at most one physical       *)
(* connection that is established and not yet disconnected.                *)
C11_AtMostOneActiveConnection == Cardinality(ActiveConnections) <= 1

(* Caller p, whose command awaited a connection attempt, makes the first   *)
(* write of its command in this step.                                      *)
CoalescedCommandWrites(p) ==
    /\ procs[p].writes = 0
    /\ procs'[p].writes = 1
    /\ procs'[p].aw # NoTask

(* C12: of the facade commands that awaited one connection attempt at most *)
(* one writes to the transport, and its caller token is the latest of      *)
(* those commands; a command whose connect() returned False returns False  *)
(* and writes nothing.                                                     *)
C12_OnlyLatestCoalescedCommandWrites ==
    [][/\ \A t \in TaskIds : procs'[t].wrote <= 1
       /\ \A p \in Callers :
             CoalescedCommandWrites(p)
             => procs'[p].tok = Max(procs'[procs'[p].aw].joined)
       /\ (fin' # fin /\ fin'.op \in FacadeOps /\ fin'.cres = "false")
          => (fin'.res = "false" /\ fin'.writes = 0)]_vars

(* The frames that carry end-position info *)
InfoFrames == {f \in Frames : f.type \in {"PERCENT", "STATUS"}}

(* C13: the cached EndPositionInfo is the one computed from the most       *)
(* recent position or status frame, with or without registered callbacks:  *)
(* receiving such a frame replaces it by the info of that frame, and no    *)
(* other step changes it.                                                  *)
C13_InfoFromMostRecentFrame ==
    [][/\ \A f \in InfoFrames :
             Notification(f)
             => dev'.end_position_info = MotionPositionInfo(f.b4, f.b6, f.b7)
       /\ (~ \E f \in InfoFrames : Notification(f))
          => dev'.end_position_info = dev.end_position_info]_vars

(* Caller p calls connect() in this step while is_connected() holds *)
ConnectWhileConnected(p) ==
    /\ \E use_notification_delay \in BOOLEAN :
          CallConnect(p, use_notification_delay)
    /\ is_connected(World)

(* The deadline after a refresh with the default timeout: an armed later   *)
(* deadline is kept, otherwise it is now + SETTING_DISCONNECT_TIME.        *)
RefreshedDeadline ==
    IF dev.disconnect_timer = "armed"
       /\ dev.disconnect_time > now + SETTING_DISCONNECT_TIME
    THEN dev.disconnect_time
    ELSE now + SETTING_DISCONNECT_TIME

(* C14: connect() called while the device is connected returns True in     *)
(* the same step (it does not suspend), leaves the disconnect timer armed  *)
(* with the refreshed deadline, creates no connection task and changes     *)
(* neither the connection state, the in-flight record nor the last-caller  *)
(* token.                                                                  *)
C14_ConnectFastPath ==
    [][\A p \in Callers :
          ConnectWhileConnected(p)
          => /\ procs'[p].pc = "idle"
             /\ fin'.op = "connect"
             /\ fin'.res = "true"
             /\ dev'.disconnect_timer = "armed"
             /\ dev'.disconnect_time = RefreshedDeadline
             /\ \A t \in TaskIds : procs'[t] = procs[t]
             /\ dev'.connection_task = dev.connection_task
             /\ dev'.connection_type = dev.connection_type
             /\ dev'.last_connection_caller_time =
                    dev.last_connection_caller_time]_vars

(* C15: in every reachable state in which a connection is open (the        *)
(* transport handle is set and live) the recorded disconnect deadline is   *)
(* defined and not earlier than the current time.                          *)
C15_DeadlineNotBeforeNow ==
    is_connected(World)
    => (dev.disconnect_time # NoTime /\ dev.disconnect_time >= now)

(* C16: a peer drop, in whatever connection state it arrives, sets the     *)
(* state to DISCONNECTED in that same step (not by way of DISCONNECTING),  *)
(* clears the transport handle, tells the registered connection callback   *)
(* DISCONNECTED, and raises no error in any coroutine.                     *)
C16_PeerDropDisconnects ==
    [][\A c \in ClientIds :
          PeerDrop(c)
          => /\ dev'.connection_type = DISCONNECTED
             /\ dev'.current_bleak_client = NoClient
             /\ dev.connection_callback => dev'.reported = DISCONNECTED
             /\ procs' = procs
             /\ fin' = fin]_vars

(* A position or status frame f is decoded in this step and its callback   *)
(* is registered.                                                          *)
Decodes(f) ==
    /\ Notification(f)
    /\ \/ f.type = "PERCENT" /\ dev.position_callback
       \/ f.type = "STATUS" /\ dev.status_callback

(* C17: for every angle byte a in 0..180 a decoded position or status      *)
(* frame reports as tilt percentage the integer nearest to 100*a/180,      *)
(* which lies in 0..100: 0 for a = 0, 50 for a = 90, 100 for a = 180.      *)
C17_TiltPercentage ==
    [][\A f \in AngleFrames :
          Decodes(f)
          => /\ dev'.angle_percentage \in 0 .. 100
             /\ 2 * (MaxAngle * dev'.angle_percentage - 100 * f.b7) <= MaxAngle
             /\ 2 * (100 * f.b7 - MaxAngle * dev'.angle_percentage) <= MaxAngle
             /\ f.b7 = 0 => dev'.angle_percentage = 0
             /\ f.b7 = 90 => dev'.angle_percentage = 50
             /\ f.b7 = MaxAngle => dev'.angle_percentage = 100]_vars

(* C17 witness: a frame with angle byte 90 was decoded, 50 was reported *)
C17_Witness == notes > 0 /\ dev.angle_percentage = 50

(* The edges of the connection state machine other than a peer drop *)
AllowedEdges ==
    {<<DISCONNECTED, CONNECTING>>, <<CONNECTING, CONNECTED>>,
     <<CONNECTED, DISCONNECTING>>, <<DISCONNECTING, DISCONNECTED>>,
     <<CONNECTING, DISCONNECTED>>}

(* C18: every change of the connection state that is not a peer drop       *)
(* follows one of the edges Disconnected->Connecting, Connecting->         *)
(* Connected, Connected->Disconnecting, Disconnecting->Disconnected or     *)
(* Connecting->Disconnected.                                               *)
C18_OnlyStateMachineEdges == dev.edges \subseteq AllowedEdges

(* The steps of _connect other than arming the disconnect timer *)
RECURSIVE Unarmed(_)
Unarmed(steps) ==
    IF steps = <<>> THEN <<>>
    ELSE IF Head(steps) = "arm" THEN Unarmed(Tail(steps))
    ELSE <<Head(steps)>> \o Unarmed(Tail(steps))

(* Every arming of the timer in steps comes after the status query *)
ArmedLast(steps) ==
    \A i \in 1 .. Len(steps) :
        steps[i] = "arm" => \E j \in 1 .. i - 1 : steps[j] = "status_query"

Succeeded(t) == procs[t].pc = "done" /\ procs[t].res = "true"

(* C19: a connection attempt that succeeded has set CONNECTING, connected  *)
(* the transport, subscribed to the notifications, written set_key and     *)
(* written the status query in this order, and has armed the disconnect    *)
(* timer only after the status query.                                      *)
C19_ConnectStepsInOrder ==
    \A t \in TaskIds :
        Succeeded(t) =>
            /\ Unarmed(procs[t].steps) =
                   <<"CONNECTING", "establish_connection", "start_notify",
                     "set_key", "status_query">>
            /\ ArmedLast(procs[t].steps)

(* The connect() call of caller p is suspended / caller p is in no call *)
ConnectPending(p) == procs[p].op = "connect" /\ procs[p].pc # "idle"

ConnectReturned(p) == procs[p].pc = "idle"

(* C20: with a fair event loop and transport operations that all end,      *)
(* every connect() call eventually returns true, false or an error.        *)
C20_ConnectEventuallyReturns ==
    \A p \in Callers : ConnectPending(p) ~> ConnectReturned(p)

(* A connect() call has returned after awaiting a task that disconnect()   *)
(* cancelled before it ran its first step.                                 *)
C20_Witness ==
    /\ fin.op = "connect"
    /\ fin.aw # NoTask
    /\ procs[fin.aw].killed
    /\ procs[fin.aw].steps = <<>>
    /\ procs[fin.aw].pc = "done"

(* Caller p starts a write_gatt_char of its facade command in this step *)
CommandWriteStarts(p) ==
    /\ procs'[p].pc = "write"
    /\ procs[p].pc # "write" \/ procs'[p].writes # procs[p].writes

(* The attempt that created link c has written its set_key command *)
Initialized(c) ==
    \A t \in TaskIds :
        procs'[t].bc = c =>
            \E i \in 1 .. Len(procs'[t].steps) : procs'[t].steps[i] = "set_key"

(* C21: a facade command of the host is written to a link only after the   *)
(* attempt that created the link has written its set_key command.          *)
C21_NoCommandBeforeInit ==
    [][\A p \in Callers :
          CommandWriteStarts(p) => Initialized(procs'[p].cl)]_vars

(* The attempt that created the link in use has completed successfully,    *)
(* the link is up and no disconnect() is under way.                        *)
ConnectionSettled ==
    /\ is_connected(World)
    /\ \E t \in TaskIds :
          /\ procs[t].bc = dev.current_bleak_client
          /\ Succeeded(t)
    /\ \A p \in Procs : procs[p].op # "disconnect" \/ procs[p].pc = "idle"

(* C22: while a successfully established connection is open a disconnect  *)
(* timer is armed, neither cancelled nor fired.                            *)
C22_OpenConnectionHasTimer ==
    ConnectionSettled => dev.disconnect_timer = "armed"

===========================================================================
